---- MODULE Spec2Model ----
(***************************************************************************)
(* Model of the servoscale firmware (src/servoscale.c, AVR variant, main). *)
(* One loop iteration is split at its two blocking calls: Capture is the   *)
(* return of pulse_width() followed by the centering, the state machine    *)
(* and the scaling, up to the call of send_pulse(); Emit is the return of  *)
(* send_pulse() followed by the update of the state duration.              *)
(***************************************************************************)
EXTENDS Integers, Naturals, Sequences, FiniteSets, TLC

(* ---- program constants ------------------------------------------------ *)
MARGIN == 40
FWDFULL == 400
MAXBURST == 15
CENTER == 1500
DEBOUNCE == 4
CTRWINDOW == 500
\* the window of the Arduino sketch (loop)
LOOPWINDOW == 1500
CTRSTART == 10
CTREND == 20
CTRSAMPLES == 10
DURMAX == 255
F_CPU == 8000000
LOOPCAP == 5
LOOPSEND == 4

(* ---- the enum of driving states --------------------------------------- *)
CTR == "CTR"
INI == "INI"
REV == "REV"
FWD == "FWD"
STP == "STP"
BRK == "BRK"
States == {CTR, INI, REV, FWD, STP, BRK}

(* ---- inputs of the model ---------------------------------------------- *)
\* neutral deviations of the transmitter (its trim), constant over a run
Trims == {-30, 0, 30}
\* a raw width read while the receiver is still pairing (outside the window)
Pairing == 2100
\* raw widths captured once the vehicle is driven
RawWidths == {0, 1000, 1460, 1470, 1500, 1530, 1540, 1600, 1900, 2000, 3000}
\* pulse widths presented on the input line, once the vehicle is driven
LineWidths == {1000, 1500, 2000}
\* the number of pulses the receiver presents before it falls silent
MaxPulses == 24
\* the largest pulse width of the conversions, in microseconds
MaxUs == 3000
\* the working range of the output widths, in microseconds
WorkMin == 1000
WorkMax == 2000
\* the durations and offsets the CTR case is probed with
ProbeDurs == {0, 10, 20}

VARIABLES state, duration, nobst, offset, len, width, pc,
          trim, nplaus, sawImpl, fwdRun, burstRun, nearRun, coolRun, owed,
          pin, phase, cycles, pout, signal, fullPulse, linew, npulses,
          discarded, probe

vars == <<state, duration, nobst, offset, len, width, pc,
          trim, nplaus, sawImpl, fwdRun, burstRun, nearRun, coolRun, owed,
          pin, phase, cycles, pout, signal, fullPulse, linew, npulses,
          discarded, probe>>

mainVars == <<state, duration, nobst, offset, len, width, pc,
              trim, nplaus, sawImpl, fwdRun, burstRun, nearRun, coolRun, owed>>

\* the input line, the position inside pulse_width() and the output line
lineVars == <<pin, phase, cycles, pout, signal, fullPulse, linew, npulses,
              discarded>>

(* ---- C integer arithmetic --------------------------------------------- *)
Int16(x) == ((x + 32768) % 65536) - 32768
Int8(x) == ((x + 128) % 256) - 128
Uint8(x) == x % 256
Uint16(x) == x % 65536
\* C division truncates toward zero (b > 0)
CDiv(a, b) == IF a >= 0 THEN a \div b ELSE -((-a) \div b)
Min(a, b) == IF a < b THEN a ELSE b

(* ---- pulse_width(): the conversions ---------------------------------- *)
\* the accumulator after that many turns of: while (PINB & ...) width += 5;
PulseCycles(polls) == Uint16(LOOPCAP * polls)

\* <width> is the number of cycles, turn it into microseconds (the product
\* of the second branch is computed on 32 bits, which 16 bits times 10
\* cannot exceed)
PulseUs(cyc) ==
  IF F_CPU % 1000000 = 0
    THEN cyc \div (F_CPU \div 1000000)
    ELSE Uint16((cyc * 10) \div (F_CPU \div 100000))

(* ---- send_pulse(): the conversions ------------------------------------ *)
\* SendLoops with the capture loop's 5 cycles taken for the emission loop
SendLoops_Five(w) == Uint16((w * (F_CPU \div 1000000)) \div LOOPCAP + 1)

\* SendLoops without the +1
SendLoops_NoBias(w) == Uint16((w * (F_CPU \div 1000000)) \div LOOPSEND)

\* width = width * (F_CPU / 1000000) / 4 + 1; the product is computed on
\* 32 bits (F_CPU is a long), the result is stored on 16 bits
SendLoops(w) == Uint16((w * (F_CPU \div 1000000)) \div LOOPSEND + 1)

\* the number of turns of: while (--width) asm volatile("");
SendIterations(n) == Uint16(n - 1)

(* ---- timing of the two busy loops ------------------------------------- *)
\* the cycles an input pulse of w microseconds lasts
HighCycles(w) == w * (F_CPU \div 1000000)
\* the turns of the 5-cycle capture loop that fit in c cycles
PollsOf(c) == c \div LOOPCAP
\* the cycles the output stays high for a loop count of n (4 cycles each)
SentCycles(n) == n * LOOPSEND

(* ---- len -= 1500; if (state != CTR) len += offset; -------------------- *)
Centered(st, off, w) ==
  LET l0 == Int16(w)
      l1 == Int16(l0 - CENTER)
  IN  IF st # CTR THEN Int16(l1 + off) ELSE l1

\* Implausible with the bounds of the window excluded
Implausible_Strict(l) == l <= -CTRWINDOW \/ l >= CTRWINDOW

\* the plausibility test of the CTR case
Implausible(l) == l < -CTRWINDOW \/ l > CTRWINDOW

\* Accumulate summing the signed deviation
Accumulate_Signed(dur, off, l) ==
  IF dur >= CTRSTART THEN Int16(off + l) ELSE off

\* the accumulation of the CTR case
Accumulate(dur, off, l) ==
  IF dur >= CTRSTART
    THEN (IF l < 0 THEN Int16(off - l) ELSE Int16(off + l))
    ELSE off

(* ---- case CTR of the first switch ------------------------------------- *)
CaseCTR(dur, off, l) ==
  IF Implausible(l)
    THEN [state |-> CTR, duration |-> Uint8(dur - 1), offset |-> off]
    ELSE LET acc == Accumulate(dur, off, l)
         IN  IF dur >= CTREND
               THEN [state |-> INI, duration |-> 0,
                     offset |-> CDiv(acc, CTRSAMPLES)]
               ELSE [state |-> CTR, duration |-> dur, offset |-> acc]

(* ---- case CTR of loop(), the Arduino sketch: int counters ------------- *)
CaseCTRLoop(dur, off, l) ==
  IF l < -LOOPWINDOW \/ l > LOOPWINDOW
    THEN [state |-> CTR, duration |-> Int16(dur - 1), offset |-> off]
    ELSE LET acc == Accumulate(dur, off, l)
         IN  IF dur >= CTREND
               THEN [state |-> INI, duration |-> 0,
                     offset |-> CDiv(acc, CTRSAMPLES)]
               ELSE [state |-> CTR, duration |-> dur, offset |-> acc]

\* CaseINI with the forward boundary excluded (> instead of >=)
CaseINI_Strict(dur, l) ==
  IF l > MARGIN THEN [state |-> FWD, duration |-> 0]
  ELSE IF l <= -MARGIN THEN [state |-> REV, duration |-> 0]
  ELSE [state |-> INI, duration |-> dur]

(* ---- case INI --------------------------------------------------------- *)
CaseINI(dur, l) ==
  IF l >= MARGIN THEN [state |-> FWD, duration |-> 0]
  ELSE IF l <= -MARGIN THEN [state |-> REV, duration |-> 0]
  ELSE [state |-> INI, duration |-> dur]

\* CaseFWD without the test of the duration
CaseFWD_NoDebounce(dur, l) ==
  IF l <= -MARGIN THEN [state |-> BRK, duration |-> 0]
  ELSE IF l > -MARGIN /\ l < MARGIN
         THEN [state |-> STP, duration |-> 0]
  ELSE [state |-> FWD, duration |-> dur]

(* ---- case FWD --------------------------------------------------------- *)
CaseFWD(dur, l) ==
  IF l <= -MARGIN THEN [state |-> BRK, duration |-> 0]
  ELSE IF l > -MARGIN /\ l < MARGIN /\ dur >= DEBOUNCE
         THEN [state |-> STP, duration |-> 0]
  ELSE [state |-> FWD, duration |-> dur]

\* CaseSTP answering a backward command by Reverse
CaseSTP_Reverse(dur, l) ==
  IF l >= MARGIN THEN [state |-> FWD, duration |-> 0]
  ELSE IF l <= -MARGIN THEN [state |-> REV, duration |-> 0]
  ELSE [state |-> STP, duration |-> dur]

(* ---- case STP --------------------------------------------------------- *)
CaseSTP(dur, l) ==
  IF l >= MARGIN THEN [state |-> FWD, duration |-> 0]
  ELSE IF l <= -MARGIN THEN [state |-> BRK, duration |-> 0]
  ELSE [state |-> STP, duration |-> dur]

(* ---- case BRK: case REV: ---------------------------------------------- *)
CaseBRKREV(st, dur, l) ==
  IF l >= MARGIN THEN [state |-> FWD, duration |-> 0]
  ELSE IF l > -MARGIN /\ l < MARGIN /\ dur >= DEBOUNCE
         THEN [state |-> INI, duration |-> 0]
  ELSE [state |-> st, duration |-> dur]

\* Classify with the accumulation carried on after Centering
Classify_Drift(st, dur, off, l) ==
  IF st = CTR THEN CaseCTR(dur, off, l)
  ELSE LET r == CASE st = INI -> CaseINI(dur, l)
                  [] st = FWD -> CaseFWD(dur, l)
                  [] st = STP -> CaseSTP(dur, l)
                  [] OTHER    -> CaseBRKREV(st, dur, l)
       IN  [state |-> r.state, duration |-> r.duration,
            offset |-> Accumulate(dur, off, l)]

(* ---- switch (state): the driving state machine ------------------------ *)
Classify(st, dur, off, l) ==
  IF st = CTR THEN CaseCTR(dur, off, l)
  ELSE LET r == CASE st = INI -> CaseINI(dur, l)
                  [] st = FWD -> CaseFWD(dur, l)
                  [] st = STP -> CaseSTP(dur, l)
                  [] OTHER    -> CaseBRKREV(st, dur, l)
       IN  [state |-> r.state, duration |-> r.duration, offset |-> off]

(* ---- second switch (state): the scaling policy ------------------------ *)
\* if (++nobst >= MAXBURST) nobst = 2 * MAXBURST;
BurstInc(nb) ==
  LET n == Int8(nb + 1)
  IN  IF n >= MAXBURST THEN 2 * MAXBURST ELSE n

\* BurstDec without the clamp at zero
BurstDec_NoClamp(nb) == Int8(nb - 1)

\* if (--nobst < 0) nobst = 0;
BurstDec(nb) ==
  LET n == Int8(nb - 1)
  IN  IF n < 0 THEN 0 ELSE n

\* ScaleFWD limiting on the width only, the burst counter being ignored
ScaleFWD_NoLock(nb, l) ==
  LET n == BurstInc(nb)
  IN  [nobst |-> n,
       len   |-> IF l < FWDFULL
                   THEN Int16(CDiv(Int16(l * 2), 5)) ELSE l]

ScaleFWD(nb, l) ==
  LET n == BurstInc(nb)
  IN  [nobst |-> n,
       len   |-> IF l < FWDFULL \/ n >= MAXBURST
                   THEN Int16(CDiv(Int16(l * 2), 5)) ELSE l]

\* ScaleREV with the backward fraction 2/4
ScaleREV_Half(nb, l) ==
  [nobst |-> BurstDec(nb), len |-> Int16(CDiv(Int16(l * 2), 4))]

ScaleREV(nb, l) ==
  [nobst |-> BurstDec(nb), len |-> Int16(CDiv(Int16(l * 2), 3))]

Scale(st, nb, l) ==
  CASE st = FWD -> ScaleFWD(nb, l)
    [] st = REV -> ScaleREV(nb, l)
    [] st = CTR -> [nobst |-> nb, len |-> l]
    [] OTHER    -> [nobst |-> BurstDec(nb), len |-> l]

\* if (duration < 255) duration++;
Tick(dur) == IF dur < DURMAX THEN Uint8(dur + 1) ELSE dur

(* ---- what the input line delivers ------------------------------------- *)
Inputs == IF state = CTR THEN {CENTER + trim, Pairing} ELSE RawWidths

InRange(l) == l > -MARGIN /\ l < MARGIN

\* PulseEntry without the first loop of pulse_width()
PulseEntry_NoSkip == "low"

\* pulse_width() starts with: while (PINB & (1 << PB4));
PulseEntry == "skip"

\* no function is being probed
NoProbe == [op |-> "none", us |-> 0, dur |-> 0, off |-> 0, a |-> 0, b |-> 0,
            st |-> CTR]

Init ==
  /\ state = CTR
  /\ duration = 0
  /\ nobst = 0
  /\ offset = 0
  /\ len = 0
  /\ width = 0
  /\ pc = "capture"
  /\ trim \in Trims
  /\ nplaus = 0
  /\ sawImpl = FALSE
  /\ fwdRun = 0
  /\ burstRun = 0
  /\ nearRun = 0
  /\ coolRun = 0
  /\ owed = 0
  /\ pin = 0
  /\ phase = PulseEntry
  /\ cycles = 0
  /\ pout = 0
  /\ signal = TRUE
  /\ fullPulse = FALSE
  /\ linew = 0
  /\ npulses = 0
  /\ discarded = FALSE
  /\ probe = NoProbe

\* AfterClassify leaving the loop body on an implausible reading (continue)
AfterClassify_Continue(st, l) ==
  IF st = CTR /\ Implausible(l) THEN "capture" ELSE "emit"

\* every break of the first switch leads to the scaling and to send_pulse()
AfterClassify(st, l) == "emit"

(* ---- the loop body from the return of pulse_width() to send_pulse() --- *)
Process(w) ==
  /\ LET l  == Centered(state, offset, w)
         sm == Classify(state, duration, offset, l)
         sc == Scale(sm.state, nobst, l)
     IN  /\ width' = w
         /\ state' = sm.state
         /\ duration' = sm.duration
         /\ offset' = sm.offset
         /\ nobst' = sc.nobst
         /\ len' = Int16(sc.len + CENTER)
         /\ nplaus' = IF state # CTR THEN 0
                      ELSE IF Implausible(l) THEN 0
                      ELSE Min(nplaus + 1, CTREND + 1)
         /\ sawImpl' = (state = CTR /\ (sawImpl \/ Implausible(l)))
         /\ fwdRun' = IF sm.state = FWD THEN Min(fwdRun + 1, MAXBURST + 1)
                      ELSE 0
         /\ burstRun' = IF sm.state = FWD /\ l >= FWDFULL
                           /\ (burstRun > 0 \/ nobst = 0)
                          THEN Min(burstRun + 1, MAXBURST + 1) ELSE 0
         /\ nearRun' = IF state # CTR /\ InRange(l)
                         THEN Min(nearRun + 1, DEBOUNCE) ELSE 0
         /\ coolRun' = IF sm.state = FWD THEN 0
                       ELSE IF nobst = 2 * MAXBURST THEN 1
                       ELSE IF coolRun > 0 THEN Min(coolRun + 1, MAXBURST)
                       ELSE 0
         /\ pc' = AfterClassify(state, l)
  /\ owed' = owed + 1
  /\ UNCHANGED trim

(* ---- pulse_width() returns w; the loop body runs up to send_pulse() --- *)
Capture(w) ==
  /\ pc = "capture"
  /\ Process(w)
  /\ UNCHANGED <<lineVars, probe>>

(* ---- the loop body after send_pulse(): duration update, loop back ----- *)
Returned ==
  /\ duration' = Tick(duration)
  /\ len' = 0
  /\ width' = 0
  /\ pc' = "capture"
  /\ owed' = owed - 1
  /\ UNCHANGED <<state, nobst, offset, trim, nplaus, sawImpl,
                 fwdRun, burstRun, nearRun, coolRun>>

(* ---- send_pulse(len) returns; the duration is updated ----------------- *)
Emit ==
  /\ pc = "emit"
  /\ Returned
  /\ UNCHANGED <<lineVars, probe>>

Next ==
  \/ \E w \in Inputs : Capture(w)
  \/ Emit

Spec == Init /\ [][Next]_vars

(* ---- the same program behind a receiver that is paired from boot ------ *)
InputsPaired == IF state = CTR THEN {CENTER + trim} ELSE RawWidths

NextPaired ==
  \/ \E w \in InputsPaired : Capture(w)
  \/ Emit

SpecPaired == Init /\ [][NextPaired]_vars

(* ======================================================================= *)
(* The same program with its input and output lines                        *)
(* ======================================================================= *)
InputsLine == IF state = CTR THEN {CENTER + trim, Pairing} ELSE LineWidths

\* PulseDone leaving the measure although the line is still high
PulseDone_Timeout(ph, p) == ph = "high"

\* the exit of: while (PINB & (1 << PB4)) width += 5;
PulseDone(ph, p) == ph = "high" /\ p = 0

\* the receiver raises the line; the low level that ends a measure lasts
\* milliseconds and is sampled every LOOPCAP cycles, so the third loop of
\* pulse_width() has left before the next pulse begins
LineRise ==
  /\ signal
  /\ pin = 0
  /\ ~(pc = "capture" /\ phase = "high")
  /\ npulses < MaxPulses
  /\ pin' = 1
  /\ npulses' = npulses + 1
  /\ fullPulse' = (pc = "capture" /\ phase = "low")
  /\ UNCHANGED <<phase, cycles, pout, signal, linew, discarded>>
  /\ UNCHANGED <<mainVars, probe>>

\* the receiver lowers the line while the pulse is not being measured
LineFall ==
  /\ signal
  /\ pin = 1
  /\ ~(pc = "capture" /\ phase \in {"low", "high"})
  /\ pin' = 0
  /\ fullPulse' = FALSE
  /\ discarded' = (pc = "capture" /\ phase = "skip")
  /\ UNCHANGED <<phase, cycles, pout, signal, linew, npulses>>
  /\ UNCHANGED <<mainVars, probe>>

\* the receiver lowers the line after w microseconds while the third loop of
\* pulse_width() has been counting, from the rising edge (all of the pulse)
\* or from the middle of the pulse (half of it)
LineFallMeasured(w) ==
  /\ signal
  /\ pin = 1
  /\ pc = "capture"
  /\ phase = "high"
  /\ pin' = 0
  /\ linew' = w
  /\ cycles' = PulseCycles(IF fullPulse
                             THEN PollsOf(HighCycles(w))
                             ELSE PollsOf(HighCycles(w)) \div 2)
  /\ UNCHANGED <<phase, pout, signal, fullPulse, npulses, discarded>>
  /\ UNCHANGED <<mainVars, probe>>

\* the signal disappears: the line keeps its level for ever
LineLose ==
  /\ signal
  /\ signal' = FALSE
  /\ UNCHANGED <<pin, phase, cycles, pout, fullPulse, linew, npulses,
                 discarded>>
  /\ UNCHANGED <<mainVars, probe>>

\* while (PINB & (1 << PB4)); sees the line low
PwSkip ==
  /\ pc = "capture"
  /\ phase = "skip"
  /\ pin = 0
  /\ phase' = "low"
  /\ UNCHANGED <<pin, cycles, pout, signal, fullPulse, linew, npulses,
                 discarded>>
  /\ UNCHANGED <<mainVars, probe>>

\* while (!(PINB & (1 << PB4))); sees the line high
PwLow ==
  /\ pc = "capture"
  /\ phase = "low"
  /\ pin = 1
  /\ phase' = "high"
  /\ UNCHANGED <<pin, cycles, pout, signal, fullPulse, linew, npulses,
                 discarded>>
  /\ UNCHANGED <<mainVars, probe>>

\* the third loop sees the line low: pulse_width() converts and returns,
\* and the loop body runs up to send_pulse()
PwReturn ==
  /\ pc = "capture"
  /\ PulseDone(phase, pin)
  /\ Process(PulseUs(cycles))
  /\ phase' = PulseEntry
  /\ cycles' = 0
  /\ fullPulse' = FALSE
  /\ linew' = 0
  /\ UNCHANGED <<pin, pout, signal, npulses, discarded, probe>>

\* send_pulse(): PORTB |= 1 << PB3;
SendRaise ==
  /\ pc = "emit"
  /\ pc' = "sending"
  /\ pout' = 1
  /\ UNCHANGED <<state, duration, nobst, offset, len, width,
                 trim, nplaus, sawImpl, fwdRun, burstRun, nearRun, coolRun,
                 owed>>
  /\ UNCHANGED <<pin, phase, cycles, signal, fullPulse, linew, npulses,
                 discarded, probe>>

\* send_pulse(): PORTB &= ~(1 << PB3); then the end of the loop body
SendLower ==
  /\ pc = "sending"
  /\ pout' = 0
  /\ Returned
  /\ discarded' = FALSE
  /\ UNCHANGED <<pin, phase, cycles, signal, fullPulse, linew, npulses,
                 probe>>

NextLine ==
  \/ LineRise
  \/ LineFall
  \/ \E w \in InputsLine : LineFallMeasured(w)
  \/ LineLose
  \/ PwSkip
  \/ PwLow
  \/ PwReturn
  \/ SendRaise
  \/ SendLower

SpecLine == Init /\ [][NextLine]_vars

(* ======================================================================= *)
(* The conversions and the CTR case, applied to every width                *)
(* ======================================================================= *)
\* pulse_width() measures an input pulse of w microseconds
ProbeLine(w) ==
  /\ probe.op = "none"
  /\ LET c == PulseCycles(PollsOf(HighCycles(w)))
     IN  probe' = [NoProbe EXCEPT !.op = "line", !.us = w, !.a = c,
                                  !.b = PulseUs(c)]
  /\ UNCHANGED <<mainVars, lineVars>>

\* send_pulse(w) computes its loop count and runs its loop
ProbeSend(w) ==
  /\ probe.op = "none"
  /\ LET n == SendLoops(w)
     IN  probe' = [NoProbe EXCEPT !.op = "send", !.us = w, !.a = n,
                                  !.b = SendIterations(n)]
  /\ UNCHANGED <<mainVars, lineVars>>

\* pulse_width() measures the pulse that send_pulse() has emitted
ProbeReadback ==
  /\ probe.op = "send"
  /\ LET c == PulseCycles(PollsOf(SentCycles(probe.a)))
     IN  probe' = [probe EXCEPT !.op = "readback", !.b = PulseUs(c)]
  /\ UNCHANGED <<mainVars, lineVars>>

\* case CTR applied to the raw width w with the duration d
ProbeCtr(w, d) ==
  /\ probe.op = "none"
  /\ LET r == CaseCTR(d, 0, Centered(CTR, 0, w))
     IN  probe' = [NoProbe EXCEPT !.op = "ctr", !.us = w, !.dur = d,
                                  !.a = r.duration, !.b = r.offset,
                                  !.st = r.state]
  /\ UNCHANGED <<mainVars, lineVars>>

\* case CTR of loop() applied to a reading of w microseconds
ProbeCtrLoop(w, d) ==
  /\ probe.op = "none"
  /\ LET r == CaseCTRLoop(d, 0, Int16(w - CENTER))
     IN  probe' = [NoProbe EXCEPT !.op = "ctrloop", !.us = w, !.dur = d,
                                  !.a = r.duration, !.b = r.offset,
                                  !.st = r.state]
  /\ UNCHANGED <<mainVars, lineVars>>

\* the probe is over
ProbeReset ==
  /\ probe.op # "none"
  /\ probe' = NoProbe
  /\ UNCHANGED <<mainVars, lineVars>>

\* the widths to probe: every width up to MaxUs, one probe at a time
ProbeWidths == IF probe.op = "none" THEN 0..MaxUs ELSE {}
\* the sketch is probed one microsecond beyond its window as well
ProbeWidthsLoop == IF probe.op = "none" THEN 0..(MaxUs + 1) ELSE {}

NextProbe ==
  \/ \E w \in ProbeWidths : ProbeLine(w)
  \/ \E w \in ProbeWidths : ProbeSend(w)
  \/ ProbeReadback
  \/ \E w \in ProbeWidths, d \in ProbeDurs : ProbeCtr(w, d)
  \/ \E w \in ProbeWidthsLoop, d \in ProbeDurs : ProbeCtrLoop(w, d)
  \/ ProbeReset

SpecProbe == Init /\ [][NextProbe]_vars

TypeOK ==
  /\ state \in States
  /\ duration \in 0..DURMAX
  /\ pc \in {"capture", "emit", "sending"}
  /\ phase \in {"skip", "low", "high"}
  /\ pin \in {0, 1}
  /\ pout \in {0, 1}

(* ======================================================================= *)
(* Properties                                                              *)
(* ======================================================================= *)

\* the corrected width of the reading taken by the step under consideration
CorrNow == Centered(state, offset, width')
\* the corrected width of the reading that led to the current "emit" state
CorrLast == Centered(state, offset, width)
IsCapture == pc = "capture" /\ pc' = "emit"
\* integer quotient rounded toward zero, stated without CDiv
TowardZero(a, b) ==
  IF a >= 0 THEN a \div b
  ELSE (a \div b) + (IF a % b = 0 THEN 0 ELSE 1)

\* C1: StateDuration never wraps around: while the state is kept, a
\* decrement at 0 never produces the maximum value and an increment at the
\* maximum never produces 0.
C1_NoWrap ==
  [][state' = state =>
       /\ ~(duration = 0 /\ duration' = DURMAX)
       /\ ~(duration = DURMAX /\ duration' = 0)]_vars

\* C2 (as claimed): a near-center reading makes Forward, Reverse or Braking
\* be left only once DEBOUNCE consecutive near-center readings have been
\* observed, this one included.
C2_ConsecutiveReadings ==
  [][(IsCapture /\ state \in {FWD, REV, BRK} /\ InRange(CorrNow)
        /\ state' # state)
       => nearRun' >= DEBOUNCE]_vars

\* C2 (amended): a near-center reading leaves Forward, Reverse or Braking
\* unchanged while StateDuration < DEBOUNCE, and once StateDuration >=
\* DEBOUNCE a single near-center reading moves Forward to Stopped and
\* Reverse or Braking to Idle, with the duration reset.
C2_DebounceDwell ==
  [][(IsCapture /\ state \in {FWD, REV, BRK} /\ InRange(CorrNow))
       => IF duration < DEBOUNCE
            THEN state' = state /\ duration' = duration
            ELSE /\ state' = (IF state = FWD THEN STP ELSE INI)
                 /\ duration' = 0]_vars

\* a near-center reading was ignored in Forward, Reverse or Braking
C2_Witness ==
  /\ pc = "emit"
  /\ state \in {FWD, REV, BRK}
  /\ nearRun >= 1
  /\ duration < DEBOUNCE

\* C3: from boot, after 20 consecutive plausible readings with a constant
\* deviation d the state is Idle and CalibrationOffset equals d.
C3_Calibration ==
  (pc = "emit" /\ ~sawImpl /\ nplaus = CTREND)
    => (state = INI /\ offset = trim)

\* C4: once Centering has completed on raw readings 1500+d, the corrected
\* width of the raw reading 1500+d lies strictly inside (-MARGIN, +MARGIN).
C4_BiasRemoved ==
  state # CTR => InRange(Centered(state, offset, CENTER + trim))

\* C5: in a Forward run started with BurstCounter = 0 and sustained at or
\* above FWDFULL, each of the first MAXBURST iterations emits the width
\* unscaled and every later one emits it scaled by 2/5.
C5_BurstLength ==
  (pc = "emit" /\ burstRun >= 1)
    => len = CENTER + (IF burstRun <= MAXBURST
                         THEN CorrLast
                         ELSE TowardZero(2 * CorrLast, 5))

\* C6: BurstCounter is never negative and never exceeds 2*MAXBURST.
C6_BurstBounds == nobst \in 0..(2 * MAXBURST)

\* the lock value has just been forced by a Forward iteration
C6_Witness == nobst = 2 * MAXBURST /\ state = FWD /\ pc = "emit"

\* C7: after MAXBURST consecutive Forward iterations BurstCounter is at
\* least MAXBURST; while it is, every Forward iteration emits the width
\* scaled by 2/5 whatever the width and keeps it at least MAXBURST; only an
\* iteration that ends outside Forward brings it back below MAXBURST.
C7_Lockout ==
  [][/\ (fwdRun' >= MAXBURST => nobst' >= MAXBURST)
     /\ (IsCapture /\ nobst >= MAXBURST /\ state' = FWD)
          => /\ nobst' >= MAXBURST
             /\ len' = CENTER + TowardZero(2 * CorrNow, 5)
     /\ (nobst >= MAXBURST /\ nobst' < MAXBURST) => state' # FWD]_vars

\* a Forward iteration past the burst, at full throttle, emitted scaled
C7_Witness ==
  /\ pc = "emit"
  /\ state = FWD
  /\ fwdRun > MAXBURST
  /\ CorrLast >= FWDFULL
  /\ len = CENTER + TowardZero(2 * CorrLast, 5)

\* the transition table of the driving state machine
TableNext(st, w, dur) ==
  CASE st = INI /\ w <= -MARGIN -> REV
    [] st = INI /\ w >= MARGIN -> FWD
    [] st = REV /\ w >= MARGIN -> FWD
    [] st = REV /\ -MARGIN < w /\ w < MARGIN /\ dur >= DEBOUNCE -> INI
    [] st = FWD /\ w <= -MARGIN -> BRK
    [] st = FWD /\ -MARGIN < w /\ w < MARGIN /\ dur >= DEBOUNCE -> STP
    [] st = STP /\ w >= MARGIN -> FWD
    [] st = STP /\ w <= -MARGIN -> BRK
    [] st = BRK /\ w >= MARGIN -> FWD
    [] st = BRK /\ -MARGIN < w /\ w < MARGIN /\ dur >= DEBOUNCE -> INI
    [] OTHER -> st

\* C8: outside Centering the next state is the one of the transition table,
\* StateDuration is reset to 0 on every transition and an input matched by
\* no row leaves the state (and the duration) unchanged.
C8_Transition ==
  [][(IsCapture /\ state # CTR)
       => /\ state' = TableNext(state, CorrNow, duration)
          /\ (state' # state => duration' = 0)
          /\ (state' = state => duration' = duration)]_vars

\* a reading of exactly +MARGIN has just led to Forward, duration reset
C8_Witness ==
  /\ pc = "emit"
  /\ state = FWD
  /\ duration = 0
  /\ CorrLast = MARGIN

\* the transform of the scaling policy
Transform(st, w, nb) ==
  CASE st = REV -> TowardZero(2 * w, 3)
    [] st = FWD -> IF w < FWDFULL \/ nb >= MAXBURST
                     THEN TowardZero(2 * w, 5) ELSE w
    [] OTHER -> w

\* C9: the emitted width is 1500 plus the corrected width transformed by
\* the state reached after the state-machine update.
C9_Output ==
  [][IsCapture => len' = CENTER + Transform(state', CorrNow, nobst')]_vars

\* a first Forward reading of raw 1600 after a zero-offset calibration
\* emits 1540
C9_Witness ==
  /\ pc = "emit"
  /\ state = FWD
  /\ fwdRun = 1
  /\ offset = 0
  /\ width = 1600
  /\ len = 1540

\* C10: once the state has left Centering it never becomes Centering again
\* and CalibrationOffset keeps its value.
C10_OneShot ==
  [][state # CTR => (state' # CTR /\ offset' = offset)]_vars

\* long after Centering, with a non-zero offset
C10_Witness == state # CTR /\ offset # 0 /\ duration = DURMAX

\* C13: the Centering to Idle transition fires only at an iteration that
\* ends a run of at least 20 consecutive plausible readings.
C13_LockedSignal ==
  [][(state = CTR /\ state' = INI) => nplaus' >= CTREND]_vars

\* C15: after the lockout, MAXBURST consecutive non-Forward iterations are
\* enough for the next Forward iteration at or above FWDFULL to be emitted
\* unscaled.
C15_RearmDelay ==
  [][(IsCapture /\ coolRun >= MAXBURST /\ state' = FWD
        /\ CorrNow >= FWDFULL)
       => len' = CENTER + CorrNow]_vars

\* C16: Reverse is entered only from Idle, on a backward command; a backward
\* command in Forward or Stopped leads to Braking; and Idle is entered, after
\* Centering, only from Reverse or Braking by a near-center reading with
\* StateDuration >= DEBOUNCE.
C16_NoDirectReversal ==
  [][IsCapture =>
       /\ (state' = REV /\ state # REV)
            => (state = INI /\ CorrNow <= -MARGIN)
       /\ (state \in {FWD, STP} /\ CorrNow <= -MARGIN) => state' = BRK
       /\ (state' = INI /\ state \notin {INI, CTR})
            => /\ state \in {REV, BRK}
               /\ InRange(CorrNow)
               /\ duration >= DEBOUNCE]_vars

\* Reverse has just been entered after some Forward iteration (the burst
\* counter has not decayed yet)
C16_Witness ==
  /\ pc = "emit"
  /\ state = REV
  /\ duration = 0
  /\ nobst > 0

\* C20: CalibrationOffset is never negative and the value handed to
\* send_pulse is never negative, so its conversion to 16 bits unsigned
\* keeps it.
C20_NonNegative ==
  /\ offset >= 0
  /\ pc = "emit" => (len >= 0 /\ Uint16(len) = len)

\* the shortest raw width was captured with a positive offset
C20_Witness ==
  /\ pc = "emit"
  /\ state # CTR
  /\ width = 0
  /\ offset > 0

\* the corrected width of the reading that led to the current state, the
\* iteration that ends Centering having used no offset
CorrEmit == IF nplaus > 0 THEN Centered(CTR, offset, width) ELSE CorrLast

\* C11: a completed capture is owed exactly one output pulse, emitted
\* before the next capture begins; the output is never high without a
\* capture owed; and the width to emit is computed from the state as
\* updated by the captured pulse.
C11_OneOutputPerInput ==
  /\ owed \in {0, 1}
  /\ (owed = 1) <=> (pc \in {"emit", "sending"})
  /\ pout = 1 => (pc = "sending" /\ owed = 1)
  /\ pc \in {"emit", "sending"}
       => len = CENTER + Transform(state, CorrEmit, nobst)

\* the output is high for a pulse captured in Reverse
C11_Witness ==
  /\ pc = "sending"
  /\ pout = 1
  /\ state = REV
  /\ width = 1000

\* C12: once the signal is lost with no completed pulse left to be read,
\* the firmware stays in pulse capture, emits nothing and keeps DrivingState,
\* StateDuration, CalibrationOffset and BurstCounter.
C12_LossOfSignal ==
  [][(~signal /\ pc = "capture" /\ ~(phase = "high" /\ pin = 0))
       => /\ pc' = "capture"
          /\ ~(phase' = "high" /\ pin' = 0)
          /\ pout' = pout
          /\ owed' = owed
          /\ UNCHANGED <<state, duration, offset, nobst>>]_vars

\* the signal was lost while driving and the firmware waits for a pulse
C12_Witness ==
  /\ ~signal
  /\ pc = "capture"
  /\ phase = "low"
  /\ pin = 0
  /\ state \in {FWD, REV}

\* C17: pulse_width goes through its phases in order and returns the width
\* of a high phase it has watched from its rising edge to its falling edge:
\* the width of the whole pulse, rounded down by less than one microsecond
\* by the poll of LOOPCAP cycles and the division.
C17_CompletePulses ==
  [][/\ phase' # phase
          => <<phase, phase'>> \in {<<"skip", "low">>, <<"low", "high">>,
                                    <<"high", "skip">>}
     /\ (phase = "low" /\ phase' = "high") => fullPulse
     /\ (pc = "capture" /\ pc' # "capture")
          => /\ phase = "high"
             /\ pin = 0
             /\ fullPulse
             /\ width' \in (linew - 1)..linew]_vars

\* pulse_width, invoked while the input was high, has discarded the rest of
\* that pulse and returned the width of the next one
C17_Witness ==
  /\ pc = "emit"
  /\ discarded
  /\ width \in LineWidths

\* the outcome of the CTR case on an implausible reading: no transition,
\* the duration decremented, nothing accumulated
ImplOutcome ==
  /\ probe.st = CTR
  /\ probe.a = (IF probe.op = "ctr" THEN (probe.dur - 1) % (DURMAX + 1)
                                    ELSE probe.dur - 1)
  /\ probe.b = 0

\* the outcome of the CTR case on a reading that counts as a sample: the
\* duration is kept, or reset by the transition to Idle
SampleOutcome ==
  \/ probe.st = CTR /\ probe.a = probe.dur
  \/ probe.st = INI /\ probe.a = 0 /\ probe.dur >= CTREND

\* the centered value of the probed width
ProbeCentered == probe.us - CENTER

\* C14 (as claimed): a reading is treated as implausible exactly when its
\* centered value lies outside [-1500, +1500].
C14_Window1500 ==
  probe.op \in {"ctr", "ctrloop"}
    => /\ ImplOutcome <=> (ProbeCentered < -1500 \/ ProbeCentered > 1500)
       /\ ~ImplOutcome => SampleOutcome

\* C14 (amended): a reading is treated as implausible exactly when its
\* centered value lies outside [-500, +500] in the AVR firmware (main), and
\* outside [-1500, +1500] in the Arduino sketch (loop); a reading inside
\* the window counts as a sample.
C14_Window500 ==
  /\ probe.op = "ctr"
       => /\ ImplOutcome <=> (ProbeCentered < -500 \/ ProbeCentered > 500)
          /\ ~ImplOutcome => SampleOutcome
  /\ probe.op = "ctrloop"
       => /\ ImplOutcome <=> (ProbeCentered < -1500 \/ ProbeCentered > 1500)
          /\ ~ImplOutcome => SampleOutcome

\* a centered value of +501 is treated as implausible
C14_Witness ==
  /\ probe.op = "ctr"
  /\ probe.us = 2001
  /\ ImplOutcome

Abs(x) == IF x < 0 THEN -x ELSE x

\* C18: for every width from 0 to 3000 microseconds the cycle accumulator
\* of pulse_width and the loop count of send_pulse are the exact counts (no
\* 16-bit wrap); for a width of 0 the loop of send_pulse does not turn.
C18_NoWrap ==
  /\ probe.op = "line"
       => /\ probe.a = LOOPCAP * ((probe.us * 8) \div LOOPCAP)
          /\ probe.a <= 65535
  /\ probe.op \in {"send", "readback"}
       => /\ probe.a = (probe.us * 8) \div 4 + 1
          /\ probe.a <= 65535
  /\ (probe.op = "send" /\ probe.us = 0) => probe.b = 0

\* send_pulse(0): a loop count of 1, no turn of the loop
C18_Witness ==
  /\ probe.op = "send"
  /\ probe.us = 0
  /\ probe.a = 1
  /\ probe.b = 0

\* C19: for every width w in the working range, the pulse of send_pulse(w)
\* is read back as a value within one capture-loop iteration (5 cycles)
\* of w.
C19_RoundTrip ==
  (probe.op = "readback" /\ probe.us \in WorkMin..WorkMax)
    => 8 * Abs(probe.b - probe.us) <= 5

\* the neutral width 1500 is read back as 1500
C19_Witness ==
  /\ probe.op = "readback"
  /\ probe.us = 1500
  /\ probe.b = 1500

====
